---- MODULE Spec2Model ----
(***************************************************************************)
(* Model of the free-response classification pipeline.                     *)
(*                                                                         *)
(* Two entry points are modelled:                                          *)
(*   "root"    = src/classify_responses.py          (per-record mode)      *)
(*   "scripts" = src/scripts/classify_responses.py  (summary mode)         *)
(* and two harnesses: "main" runs the entry point's main(), "call" invokes *)
(* classify_text directly with an arbitrary max_retries argument.          *)
(* A second specification, SpecFn, calls build_summary, normalize_category *)
(* and the parsing steps of classify_text on their own (harnesses          *)
(* "build_summary", "normalize_category" and "parse").                     *)
(*                                                                         *)
(* Python strings are sequences of one-character strings, so that strip(), *)
(* the comparison of lowered strings, find(), rfind(), slicing and         *)
(* concatenation are computed.                                             *)
(***************************************************************************)
EXTENDS Integers, Sequences, FiniteSets, TLC

(***************************************************************************)
(* Bounds of the model.                                                    *)
(***************************************************************************)
MaxRows == 2
MaxRetriesArg == 7
MaxCats == 3
MaxRaw == 5

(***************************************************************************)
(* Program constants.                                                      *)
(***************************************************************************)
DefaultMaxRetries == 5
InitialDelay == 1
DelayCap == 16

RetryableStatusCodes == {429, 500, 502, 503, 504}

CatCheating == <<"C","h","e","a","t","i","n","g"," ","C","o","n","c","e","r","n","s">>
CatPositive == <<"P","o","s","i","t","i","v","e"," ","L","e","a","r","n","i","n","g"," ","U","s","e">>
CatNegative == <<"N","e","g","a","t","i","v","e"," ","E","x","p","e","r","i","e","n","c","e","s">>
CatOverreliance == <<"O","v","e","r","r","e","l","i","a","n","c","e">>
CatTrust == <<"T","r","u","s","t"," ","I","s","s","u","e","s">>
CatPolicy == <<"P","o","l","i","c","y","/","S","c","h","o","o","l"," ","R","u","l","e","s">>
CatMixed == <<"M","i","x","e","d"," ","V","i","e","w","s">>
CatEthical == <<"E","t","h","i","c","a","l","/","P","r","i","v","a","c","y"," ","C","o","n","c","e","r","n","s">>
CatNoUse == <<"N","o"," ","U","s","e">>
CatOther == <<"O","t","h","e","r">>

\* ALLOWED_CATEGORIES of each entry point, in list order.
ALLOWED_CATEGORIES(e) ==
    IF e = "root"
    THEN <<CatCheating, CatPositive, CatNegative, CatOverreliance, CatTrust,
           CatPolicy, CatMixed, CatEthical, CatNoUse, CatOther>>
    ELSE <<CatCheating, CatPositive, CatNegative, CatOverreliance, CatTrust,
           CatPolicy, CatEthical, CatNoUse, CatOther>>

AllowedSet(e) == {ALLOWED_CATEGORIES(e)[i] : i \in 1..Len(ALLOWED_CATEGORIES(e))}

(***************************************************************************)
(* Python string primitives.                                               *)
(*                                                                         *)
(* A character is a one-character string.  A printable ASCII character is  *)
(* itself; tab, line feed, carriage return and form feed are "\t", "\n",   *)
(* "\r" and "\f"; every other character (and the grave accent, U+0060) is  *)
(* written as the string \uXXXX of its code point in four lowercase        *)
(* hexadecimal digits, or \UXXXXXXXX above U+FFFF.                         *)
(***************************************************************************)
\* The characters str.strip() removes: those for which str.isspace() holds.
Whitespace ==
    {"\t", "\n", "\\u000b", "\f", "\r", "\\u001c", "\\u001d", "\\u001e",
     "\\u001f", " ", "\\u0085", "\\u00a0", "\\u1680", "\\u2000", "\\u2001",
     "\\u2002", "\\u2003", "\\u2004", "\\u2005", "\\u2006", "\\u2007",
     "\\u2008", "\\u2009", "\\u200a", "\\u2028", "\\u2029", "\\u202f",
     "\\u205f", "\\u3000"}

\* The characters str.lower() changes into an ASCII character (the capital
\* letters and the Kelvin sign U+212A), and what it changes them to.  Of
\* every other character lower() makes itself, when it is ASCII, or one or
\* more characters outside ASCII.
UpperChars ==
    <<"A", "B", "C", "D", "E", "F", "G", "H", "I", "J", "K", "L", "M", "N",
      "O", "P", "Q", "R", "S", "T", "U", "V", "W", "X", "Y", "Z", "\\u212a">>
LowerChars ==
    <<"a", "b", "c", "d", "e", "f", "g", "h", "i", "j", "k", "l", "m", "n",
      "o", "p", "q", "r", "s", "t", "u", "v", "w", "x", "y", "z", "k">>

SetMin(S) == CHOOSE x \in S : \A y \in S : x <= y
SetMax(S) == CHOOSE x \in S : \A y \in S : x >= y
Min2(a, b) == IF a <= b THEN a ELSE b

\* The first index from i up, and the last index from j down, of a
\* character of s that is no whitespace (j + 1 and i - 1 when there is none).
RECURSIVE FirstKept(_, _)
FirstKept(s, i) ==
    IF i <= Len(s) /\ s[i] \in Whitespace THEN FirstKept(s, i + 1) ELSE i

RECURSIVE LastKept(_, _)
LastKept(s, j) ==
    IF j >= 1 /\ s[j] \in Whitespace THEN LastKept(s, j - 1) ELSE j

\* str.strip(): drop leading and trailing whitespace characters.
Strip(s) == SubSeq(s, FirstKept(s, 1), LastKept(s, Len(s)))

\* allowed.lower() of a label of ALLOWED_CATEGORIES; the labels are ASCII.
LowerLabel(allowed) ==
    [i \in 1..Len(allowed) |->
        IF \E k \in DOMAIN UpperChars : UpperChars[k] = allowed[i]
        THEN LowerChars[CHOOSE k \in DOMAIN UpperChars : UpperChars[k] = allowed[i]]
        ELSE allowed[i]]

\* cat_norm.lower() == allowed.lower() for a label allowed: every character
\* of cat_norm becomes the one ASCII character at its place in the lowered
\* label.  A character becomes the ASCII character a (no capital letter)
\* when it is a, or a character of UpperChars with a as its small letter.
LowerEquals(cat_norm, allowed) ==
    LET low == LowerLabel(allowed)
        LowersTo(c, a) ==
            \/ c = a
            \/ \E k \in DOMAIN UpperChars : UpperChars[k] = c /\ LowerChars[k] = a
    IN  /\ Len(cat_norm) = Len(low)
        /\ \A i \in 1..Len(low) : LowersTo(cat_norm[i], low[i])

\* str.find(ch) / str.rfind(ch): 0-based index of the first / last
\* occurrence of ch, or -1.
RECURSIVE FindFrom(_, _, _)
FindFrom(s, ch, i) ==
    IF i > Len(s) THEN -1 ELSE IF s[i] = ch THEN i - 1 ELSE FindFrom(s, ch, i + 1)

RECURSIVE RFindFrom(_, _, _)
RFindFrom(s, ch, i) ==
    IF i < 1 THEN -1 ELSE IF s[i] = ch THEN i - 1 ELSE RFindFrom(s, ch, i - 1)

Find(s, ch) == FindFrom(s, ch, 1)

RFind(s, ch) == RFindFrom(s, ch, Len(s))

\* s[start : end + 1] for 0-based start <= end.
Slice(s, start, end) == SubSeq(s, start + 1, end + 1)

DigitChars == <<"0","1","2","3","4","5","6","7","8","9">>

\* str(n) for a natural number n (inside an f-string).
RECURSIVE DecStr(_)
DecStr(n) ==
    IF n < 10 THEN <<DigitChars[n + 1]>>
    ELSE DecStr(n \div 10) \o <<DigitChars[(n % 10) + 1]>>

(***************************************************************************)
(* Python values decoded from JSON or held in a row: t is the type (or     *)
(* "missing": the key is absent), s the characters of a str and the JSON   *)
(* text of any other value.                                                *)
(***************************************************************************)
JStr(s) == [t |-> "str", s |-> s]
JNull == [t |-> "NoneType", s |-> <<"n","u","l","l">>]
JMissing == [t |-> "missing", s |-> <<>>]
JInt(src) == [t |-> "int", s |-> src]
JFloat(src) == [t |-> "float", s |-> src]
JBool(src) == [t |-> "bool", s |-> src]
JList(src) == [t |-> "list", s |-> src]
JDict(src) == [t |-> "dict", s |-> src]

\* The number 5.
JNum == JInt(<<"5">>)

JsonWs == {" ", "\t", "\n", "\r"}
Digits == {DigitChars[i] : i \in DOMAIN DigitChars}

\* The decimal digits of the mantissa of a number's text.
MantissaDigits(src) ==
    LET stop == {i \in DOMAIN src : src[i] \in {"e", "E"}}
        m == IF stop = {} THEN src ELSE SubSeq(src, 1, SetMin(stop) - 1)
    IN  SelectSeq(m, LAMBDA c : c \in Digits)

\* The value of the digits ds after acc, or cut when it is cut or more.
RECURSIVE DigitsValue(_, _, _)
DigitsValue(ds, acc, cut) ==
    IF ds = <<>> THEN acc
    ELSE DigitsValue(Tail(ds),
                     Min2(cut, acc * 10 + (CHOOSE d \in 0..9 : DigitChars[d + 1] = Head(ds))),
                     cut)

\* The value of the exponent part of a number's text (0 when it has none),
\* or +-cut when it is that far from 0 or farther.
Exponent(src, cut) ==
    LET stop == {i \in DOMAIN src : src[i] \in {"e", "E"}}
        e == IF stop = {} THEN <<>> ELSE SubSeq(src, SetMin(stop) + 1, Len(src))
        v == DigitsValue(SelectSeq(e, LAMBDA c : c \in Digits), 0, cut)
    IN  IF e # <<>> /\ Head(e) = "-" THEN 0 - v ELSE v

\* The digits of 2^-1075 = 0.24703282292062327...e-323, the largest value
\* float() rounds to 0.0 (a tie between 0.0 and 2^-1074, which goes to the
\* even one): all 752 of them.
HalfMinDouble ==
    <<"2", "4", "7", "0", "3", "2", "8", "2", "2", "9", "2", "0", "6", "2",
      "3", "2", "7", "2", "0", "8", "8", "2", "8", "4", "3", "9", "6", "4",
      "3", "4", "1", "1", "0", "6", "8", "6", "1", "8", "2", "5", "2", "9",
      "9", "0", "1", "3", "0", "7", "1", "6", "2", "3", "8", "2", "2", "1",
      "2", "7", "9", "2", "8", "4", "1", "2", "5", "0", "3", "3", "7", "7",
      "5", "3", "6", "3", "5", "1", "0", "4", "3", "7", "5", "9", "3", "2",
      "6", "4", "9", "9", "1", "8", "1", "8", "0", "8", "1", "7", "9", "9",
      "6", "1", "8", "9", "8", "9", "8", "2", "8", "2", "3", "4", "7", "7",
      "2", "2", "8", "5", "8", "8", "6", "5", "4", "6", "3", "3", "2", "8",
      "3", "5", "5", "1", "7", "7", "9", "6", "9", "8", "9", "8", "1", "9",
      "9", "3", "8", "7", "3", "9", "8", "0", "0", "5", "3", "9", "0", "9",
      "3", "9", "0", "6", "3", "1", "5", "0", "3", "5", "6", "5", "9", "5",
      "1", "5", "5", "7", "0", "2", "2", "6", "3", "9", "2", "2", "9", "0",
      "8", "5", "8", "3", "9", "2", "4", "4", "9", "1", "0", "5", "1", "8",
      "4", "4", "3", "5", "9", "3", "1", "8", "0", "2", "8", "4", "9", "9",
      "3", "6", "5", "3", "6", "1", "5", "2", "5", "0", "0", "3", "1", "9",
      "3", "7", "0", "4", "5", "7", "6", "7", "8", "2", "4", "9", "2", "1",
      "9", "3", "6", "5", "6", "2", "3", "6", "6", "9", "8", "6", "3", "6",
      "5", "8", "4", "8", "0", "7", "5", "7", "0", "0", "1", "5", "8", "5",
      "7", "6", "9", "2", "6", "9", "9", "0", "3", "7", "0", "6", "3", "1",
      "1", "9", "2", "8", "2", "7", "9", "5", "5", "8", "5", "5", "1", "3",
      "3", "2", "9", "2", "7", "8", "3", "4", "3", "3", "8", "4", "0", "9",
      "3", "5", "1", "9", "7", "8", "0", "1", "5", "5", "3", "1", "2", "4",
      "6", "5", "9", "7", "2", "6", "3", "5", "7", "9", "5", "7", "4", "6",
      "2", "2", "7", "6", "6", "4", "6", "5", "2", "7", "2", "8", "2", "7",
      "2", "2", "0", "0", "5", "6", "3", "7", "4", "0", "0", "6", "4", "8",
      "5", "4", "9", "9", "9", "7", "7", "0", "9", "6", "5", "9", "9", "4",
      "7", "0", "4", "5", "4", "0", "2", "0", "8", "2", "8", "1", "6", "6",
      "2", "2", "6", "2", "3", "7", "8", "5", "7", "3", "9", "3", "4", "5",
      "0", "7", "3", "6", "3", "3", "9", "0", "0", "7", "9", "6", "7", "7",
      "6", "1", "9", "3", "0", "5", "7", "7", "5", "0", "6", "7", "4", "0",
      "1", "7", "6", "3", "2", "4", "6", "7", "3", "6", "0", "0", "9", "6",
      "8", "9", "5", "1", "3", "4", "0", "5", "3", "5", "5", "3", "7", "4",
      "5", "8", "5", "1", "6", "6", "6", "1", "1", "3", "4", "2", "2", "3",
      "7", "6", "6", "6", "7", "8", "6", "0", "4", "1", "6", "2", "1", "5",
      "9", "6", "8", "0", "4", "6", "1", "9", "1", "4", "4", "6", "7", "2",
      "9", "1", "8", "4", "0", "3", "0", "0", "5", "3", "0", "0", "5", "7",
      "5", "3", "0", "8", "4", "9", "0", "4", "8", "7", "6", "5", "3", "9",
      "1", "7", "1", "1", "3", "8", "6", "5", "9", "1", "6", "4", "6", "2",
      "3", "9", "5", "2", "4", "9", "1", "2", "6", "2", "3", "6", "5", "3",
      "8", "8", "1", "8", "7", "9", "6", "3", "6", "2", "3", "9", "3", "7",
      "3", "2", "8", "0", "4", "2", "3", "8", "9", "1", "0", "1", "8", "6",
      "7", "2", "3", "4", "8", "4", "9", "7", "6", "6", "8", "2", "3", "5",
      "0", "8", "9", "8", "6", "3", "3", "8", "8", "5", "8", "7", "9", "2",
      "5", "6", "2", "8", "3", "0", "2", "7", "5", "5", "9", "9", "5", "6",
      "5", "7", "5", "2", "4", "4", "5", "5", "5", "0", "7", "2", "5", "5",
      "1", "8", "9", "3", "1", "3", "6", "9", "0", "8", "3", "6", "2", "5",
      "4", "7", "7", "9", "1", "8", "6", "9", "4", "8", "6", "6", "7", "9",
      "9", "4", "9", "6", "8", "3", "2", "4", "0", "4", "9", "7", "0", "5",
      "8", "2", "1", "0", "2", "8", "5", "1", "3", "1", "8", "5", "4", "5",
      "1", "3", "9", "6", "2", "1", "3", "8", "3", "7", "7", "2", "2", "8",
      "2", "6", "1", "4", "5", "4", "3", "7", "6", "9", "3", "4", "1", "2",
      "5", "3", "2", "0", "9", "8", "5", "9", "1", "3", "2", "7", "6", "6",
      "7", "2", "3", "6", "3", "2", "8", "1", "2", "5">>

\* 0.s <= 0.t for the digit strings s and t.
RECURSIVE DigitsAtMost(_, _)
DigitsAtMost(s, t) ==
    IF s = <<>> THEN TRUE
    ELSE IF t = <<>> THEN \A i \in DOMAIN s : s[i] = "0"
    ELSE LET i == CHOOSE d \in 0..9 : DigitChars[d + 1] = Head(s)
             j == CHOOSE d \in 0..9 : DigitChars[d + 1] = Head(t)
         IN  IF i < j THEN TRUE
             ELSE IF i > j THEN FALSE
             ELSE DigitsAtMost(Tail(s), Tail(t))

\* float(text) == 0.0, for the text of a JSON number with a fraction or an
\* exponent: the mantissa is zero, or the value 0.d1d2... * 10^x is at most
\* 2^-1075.  x is the exponent plus the number of digits before the point
\* less the number of zeros before d1; the exponent is read up to a cut
\* beyond which no mantissa of the text brings x back to -323.
FloatIsZero(src) ==
    LET m == MantissaDigits(src)
        point == {i \in DOMAIN src : src[i] = "."}
        intlen == Len(SelectSeq(IF point = {} THEN
                                    (LET stop == {i \in DOMAIN src : src[i] \in {"e", "E"}}
                                     IN  IF stop = {} THEN src
                                         ELSE SubSeq(src, 1, SetMin(stop) - 1))
                                ELSE SubSeq(src, 1, SetMin(point) - 1),
                                LAMBDA c : c \in Digits))
        nz == {i \in DOMAIN m : m[i] # "0"}
        lead == SetMin(nz)
        x == Exponent(src, Len(src) + 324) + intlen - (lead - 1)
    IN  IF nz = {} THEN TRUE
        ELSE IF x < -323 THEN TRUE
        ELSE IF x > -323 THEN FALSE
        ELSE DigitsAtMost(SubSeq(m, lead, Len(m)), HalfMinDouble)

\* bool(v): the truth value `v or ""` tests.
Truthy(v) ==
    IF v.t = "str" THEN v.s # <<>>
    ELSE IF v.t = "int" THEN \E i \in DOMAIN v.s : v.s[i] \in Digits \ {"0"}
    ELSE IF v.t = "float" THEN (v.s[Len(v.s)] \in {"N", "y"} \/ ~FloatIsZero(v.s))
    ELSE IF v.t = "bool" THEN v.s = <<"t","r","u","e">>
    ELSE IF v.t \in {"list", "dict"}
    THEN \E i \in 2..(Len(v.s) - 1) : v.s[i] \notin JsonWs
    ELSE FALSE

\* type(v).__name__
TypeName(v) ==
    IF v.t = "str" THEN <<"s","t","r">>
    ELSE IF v.t = "int" THEN <<"i","n","t">>
    ELSE IF v.t = "float" THEN <<"f","l","o","a","t">>
    ELSE IF v.t = "bool" THEN <<"b","o","o","l">>
    ELSE IF v.t = "list" THEN <<"l","i","s","t">>
    ELSE IF v.t = "dict" THEN <<"d","i","c","t">>
    ELSE <<"N","o","n","e","T","y","p","e">>

\* str(e) of the AttributeError raised by v.get / v.strip on a value that
\* has no such method.
AttributeMsg(v, attr) ==
    <<"'">> \o TypeName(v) \o <<"'"," ","o","b","j","e","c","t"," ","h","a","s"," ","n","o"," ","a","t","t","r","i","b","u","t","e"," ","'">> \o attr \o <<"'">>


(***************************************************************************)
(* json.loads (the decoder of the standard library, as of Python 3.11).    *)
(* Indices are 0-based as in the code; Ch(s, i) is "" past the end.        *)
(***************************************************************************)
Ch(s, i) == IF i >= 0 /\ i < Len(s) THEN s[i + 1] ELSE ""

MsgExpectingValue == <<"E","x","p","e","c","t","i","n","g"," ","v","a","l","u","e">>
MsgPropertyName ==
    <<"E", "x", "p", "e", "c", "t", "i", "n", "g", " ", "p", "r", "o", "p",
      "e", "r", "t", "y", " ", "n", "a", "m", "e", " ", "e", "n", "c", "l",
      "o", "s", "e", "d", " ", "i", "n", " ", "d", "o", "u", "b", "l", "e",
      " ", "q", "u", "o", "t", "e", "s">>
MsgColon ==
    <<"E", "x", "p", "e", "c", "t", "i", "n", "g", " ", "'", ":", "'", " ",
      "d", "e", "l", "i", "m", "i", "t", "e", "r">>
MsgComma ==
    <<"E", "x", "p", "e", "c", "t", "i", "n", "g", " ", "'", ",", "'", " ",
      "d", "e", "l", "i", "m", "i", "t", "e", "r">>
MsgExtraData == <<"E","x","t","r","a"," ","d","a","t","a">>
MsgUnterminated ==
    <<"U", "n", "t", "e", "r", "m", "i", "n", "a", "t", "e", "d", " ", "s",
      "t", "r", "i", "n", "g", " ", "s", "t", "a", "r", "t", "i", "n", "g",
      " ", "a", "t">>
MsgControl ==
    <<"I", "n", "v", "a", "l", "i", "d", " ", "c", "o", "n", "t", "r", "o",
      "l", " ", "c", "h", "a", "r", "a", "c", "t", "e", "r", " ", "a", "t">>
MsgEscape == <<"I","n","v","a","l","i","d"," ","\\","e","s","c","a","p","e">>
MsgUEscape ==
    <<"I", "n", "v", "a", "l", "i", "d", " ", "\\", "u", "X", "X", "X", "X",
      " ", "e", "s", "c", "a", "p", "e">>
MsgBOM ==
    <<"U", "n", "e", "x", "p", "e", "c", "t", "e", "d", " ", "U", "T", "F",
      "-", "8", " ", "B", "O", "M", " ", "(", "d", "e", "c", "o", "d", "e",
      " ", "u", "s", "i", "n", "g", " ", "u", "t", "f", "-", "8", "-", "s",
      "i", "g", ")">>

KeyCategory == <<"c","a","t","e","g","o","r","y">>
KeyReason == <<"r","e","a","s","o","n">>

\* The result of scanning one value: the value and the index after it, or
\* the message and position of the JSONDecodeError (position -1: the whole
\* text of a ValueError, -2: of a RecursionError); for an object, the values
\* of its keys "category" and "reason".
Decoded(val, end) ==
    [ok |-> TRUE, val |-> val, end |-> end, msg |-> <<>>, pos |-> 0,
     category |-> JMissing, reason |-> JMissing]

DecodeError(msg, pos) ==
    [ok |-> FALSE, val |-> JNull, end |-> 0, msg |-> msg, pos |-> pos,
     category |-> JMissing, reason |-> JMissing]

\* str(e) of a RecursionError: the interpreter's recursion limit leaves no
\* room for what the decoder does next.
MsgRecursion(doing) ==
    <<"m", "a", "x", "i", "m", "u", "m", " ", "r", "e", "c", "u", "r", "s",
      "i", "o", "n", " ", "d", "e", "p", "t", "h", " ", "e", "x", "c", "e",
      "e", "d", "e", "d">> \o doing

\* The error the scanner raises for msg at pos when room more objects and
\* arrays may be entered: the JSONDecodeError is built by a call of Python
\* code, which takes three levels of the recursion limit itself.
ScanError(msg, pos, room) ==
    IF room >= 3 THEN DecodeError(msg, pos)
    ELSE IF room = 1 THEN DecodeError(MsgRecursion(<<>>), -2)
    ELSE DecodeError(MsgRecursion(
             <<" ", "w", "h", "i", "l", "e", " ", "c", "a", "l", "l", "i",
               "n", "g", " ", "a", " ", "P", "y", "t", "h", "o", "n", " ",
               "o", "b", "j", "e", "c", "t">>), -2)

RECURSIVE SkipWs(_, _)
SkipWs(s, i) == IF Ch(s, i) \in JsonWs THEN SkipWs(s, i + 1) ELSE i

RECURSIVE SkipDigits(_, _)
SkipDigits(s, i) == IF Ch(s, i) \in Digits THEN SkipDigits(s, i + 1) ELSE i

\* s[i : i + len(word)] == word
Matches(s, i, word) ==
    /\ i + Len(word) <= Len(s)
    /\ SubSeq(s, i + 1, i + Len(word)) = word

\* A number: -?(0|[1-9][0-9]*)(\.[0-9]+)?([eE][-+]?[0-9]+)?
\* The steps follow the matcher: the sign, the integer part ending at i1,
\* the fraction ending at i2 (read only when a digit follows the point),
\* the exponent's digits from e1 to e2 (read only when there is a digit).
\* int() of more than 4300 digits raises ValueError.
MatchNumber(s, start) ==
    LET TooLong(digits) ==
            DecodeError(
                <<"E", "x", "c", "e", "e", "d", "s", " ", "t", "h", "e", " ",
                  "l", "i", "m", "i", "t", " ", "(", "4", "3", "0", "0", " ",
                  "d", "i", "g", "i", "t", "s", ")", " ", "f", "o", "r", " ",
                  "i", "n", "t", "e", "g", "e", "r", " ", "s", "t", "r", "i",
                  "n", "g", " ", "c", "o", "n", "v", "e", "r", "s", "i", "o",
                  "n", ":", " ", "v", "a", "l", "u", "e", " ", "h", "a", "s",
                  " ">>
                    \o DecStr(digits) \o
                <<" ", "d", "i", "g", "i", "t", "s", ";", " ", "u", "s", "e",
                  " ", "s", "y", "s", ".", "s", "e", "t", "_", "i", "n", "t",
                  "_", "m", "a", "x", "_", "s", "t", "r", "_", "d", "i", "g",
                  "i", "t", "s", "(", ")", " ", "t", "o", " ", "i", "n", "c",
                  "r", "e", "a", "s", "e", " ", "t", "h", "e", " ", "l", "i",
                  "m", "i", "t">>,
                -1)
        Number(isfloat, end, i0) ==
            IF isfloat THEN Decoded(JFloat(SubSeq(s, start + 1, end)), end)
            ELSE IF end - i0 > 4300 THEN TooLong(end - i0)
            ELSE Decoded(JInt(SubSeq(s, start + 1, end)), end)
        ExponentEnd(isfloat, i2, e1, e2, i0) ==
            IF Ch(s, i2) \in {"e", "E"} /\ e2 > e1 THEN Number(TRUE, e2, i0)
            ELSE Number(isfloat, i2, i0)
        ExponentStart(isfloat, i2, e1, i0) ==
            ExponentEnd(isfloat, i2, e1, SkipDigits(s, e1), i0)
        Fraction(isfloat, i2, i0) ==
            ExponentStart(isfloat, i2,
                          IF Ch(s, i2 + 1) \in {"+", "-"} THEN i2 + 2 ELSE i2 + 1, i0)
        Integer(i1, i0) ==
            IF Ch(s, i1) = "." /\ Ch(s, i1 + 1) \in Digits
            THEN Fraction(TRUE, SkipDigits(s, i1 + 2), i0)
            ELSE Fraction(FALSE, i1, i0)
        Sign(i0) ==
            IF Ch(s, i0) \notin Digits THEN DecodeError(MsgExpectingValue, start)
            ELSE Integer(IF Ch(s, i0) = "0" THEN i0 + 1 ELSE SkipDigits(s, i0), i0)
    IN  Sign(IF Ch(s, start) = "-" THEN start + 1 ELSE start)

HexChars == <<"0","1","2","3","4","5","6","7","8","9","a","b","c","d","e","f">>
HexUpper == <<"0","1","2","3","4","5","6","7","8","9","A","B","C","D","E","F">>

IsHex(c) == \E i \in 1..16 : HexChars[i] = c \/ HexUpper[i] = c
HexVal(c) == (CHOOSE i \in 1..16 : HexChars[i] = c \/ HexUpper[i] = c) - 1

\* The value of the four hexadecimal digits s[i : i + 4].
Hex4(s, i) ==
    HexVal(Ch(s, i)) * 4096 + HexVal(Ch(s, i + 1)) * 256
        + HexVal(Ch(s, i + 2)) * 16 + HexVal(Ch(s, i + 3))

\* The printable ASCII characters, U+0020..U+007E.
Ascii ==
    <<" ", "!", "\"", "#", "$", "%", "&", "'", "(", ")", "*", "+", ",", "-",
      ".", "/", "0", "1", "2", "3", "4", "5", "6", "7", "8", "9", ":", ";",
      "<", "=", ">", "?", "@", "A", "B", "C", "D", "E", "F", "G", "H", "I",
      "J", "K", "L", "M", "N", "O", "P", "Q", "R", "S", "T", "U", "V", "W",
      "X", "Y", "Z", "[", "\\", "]", "^", "_", "\\u0060", "a", "b", "c", "d",
      "e", "f", "g", "h", "i", "j", "k", "l", "m", "n", "o", "p", "q", "r",
      "s", "t", "u", "v", "w", "x", "y", "z", "{", "|", "}", "~">>

\* chr(cp)
CodeChar(cp) ==
    IF cp >= 32 /\ cp <= 126 THEN Ascii[cp - 31]
    ELSE IF cp = 9 THEN "\t"
    ELSE IF cp = 10 THEN "\n"
    ELSE IF cp = 12 THEN "\f"
    ELSE IF cp = 13 THEN "\r"
    ELSE IF cp < 65536
    THEN "\\u" \o HexChars[(cp \div 4096) + 1] \o HexChars[((cp \div 256) % 16) + 1]
               \o HexChars[((cp \div 16) % 16) + 1] \o HexChars[(cp % 16) + 1]
    ELSE "\\U00" \o HexChars[(cp \div 1048576) + 1]
                  \o HexChars[((cp \div 65536) % 16) + 1]
                  \o HexChars[((cp \div 4096) % 16) + 1]
                  \o HexChars[((cp \div 256) % 16) + 1]
                  \o HexChars[((cp \div 16) % 16) + 1] \o HexChars[(cp % 16) + 1]

\* The characters U+0000..U+001F, which a JSON string may not hold.
ControlChars == {CodeChar(cp) : cp \in 0..31}

\* What the character after a backslash stands for.
Unescape(c) ==
    IF c = "b" THEN "\\u0008"
    ELSE IF c = "f" THEN "\f"
    ELSE IF c = "n" THEN "\n"
    ELSE IF c = "r" THEN "\r"
    ELSE IF c = "t" THEN "\t"
    ELSE c

\* scanstring: the string whose opening quote is at begin, read from index
\* i on, acc being the characters read so far and room what ScanError needs.
RECURSIVE ScanString(_, _, _, _, _)
ScanString(s, begin, i, acc, room) ==
    LET c == Ch(s, i)
        e == Ch(s, i + 1)
        \* \uXXXX\uYYYY with c1 a high surrogate: one character when c2 is a
        \* low surrogate, else c1 on its own.
        Pair(c1, c2) ==
            IF c2 >= 56320 /\ c2 <= 57343
            THEN ScanString(s, begin, i + 12,
                            Append(acc, CodeChar(65536 + (c1 - 55296) * 1024 + (c2 - 56320))),
                            room)
            ELSE ScanString(s, begin, i + 6, Append(acc, CodeChar(c1)), room)
        Escape(c1) ==
            IF /\ c1 >= 55296 /\ c1 <= 56319
               /\ i + 12 < Len(s)
               /\ Ch(s, i + 6) = "\\" /\ Ch(s, i + 7) = "u"
            THEN IF \E k \in 0..3 : ~IsHex(Ch(s, i + 8 + k))
                 THEN ScanError(MsgUEscape, i + 7, room)
                 ELSE Pair(c1, Hex4(s, i + 8))
            ELSE ScanString(s, begin, i + 6, Append(acc, CodeChar(c1)), room)
    IN  IF c = "" THEN ScanError(MsgUnterminated, begin, room)
        ELSE IF c = "\"" THEN Decoded(JStr(acc), i + 1)
        ELSE IF c = "\\"
        THEN IF e = "" THEN ScanError(MsgUnterminated, begin, room)
             ELSE IF e # "u"
             THEN IF e \in {"\"", "\\", "/", "b", "f", "n", "r", "t"}
                  THEN ScanString(s, begin, i + 2, Append(acc, Unescape(e)), room)
                  ELSE ScanError(MsgEscape, i, room)
             ELSE IF i + 6 >= Len(s) \/ (\E k \in 0..3 : ~IsHex(Ch(s, i + 2 + k)))
             THEN ScanError(MsgUEscape, i + 1, room)
             ELSE Escape(Hex4(s, i + 2))
        ELSE IF c \in ControlChars THEN ScanError(MsgControl, i, room)
        ELSE ScanString(s, begin, i + 1, Append(acc, c), room)

RECURSIVE ScanOnce(_, _, _)
RECURSIVE ObjectMembers(_, _, _, _, _, _)
RECURSIVE ArrayItems(_, _, _, _)

\* The loop of the object decoder, at the index where a key must start:
\* the key, the colon, the value, then "}" or "," and the next key.  A key
\* read again replaces the value read before.  room is the number of
\* objects and arrays that may still be entered inside this one.
ObjectMembers(s, start, index, category, reason, room) ==
    LET Separator(key, v, after) ==
            IF Ch(s, after) = "}"
            THEN [Decoded(JDict(SubSeq(s, start + 1, after + 1)), after + 1)
                    EXCEPT !.category = IF key.val.s = KeyCategory THEN v.val ELSE category,
                           !.reason = IF key.val.s = KeyReason THEN v.val ELSE reason]
            ELSE IF Ch(s, after) # "," THEN ScanError(MsgComma, after, room)
            ELSE ObjectMembers(s, start, SkipWs(s, after + 1),
                               IF key.val.s = KeyCategory THEN v.val ELSE category,
                               IF key.val.s = KeyReason THEN v.val ELSE reason, room)
        Value(key, v) ==
            IF ~v.ok THEN DecodeError(v.msg, v.pos) ELSE Separator(key, v, SkipWs(s, v.end))
        Colon(key, colon) ==
            IF Ch(s, colon) # ":" THEN ScanError(MsgColon, colon, room)
            ELSE Value(key, ScanOnce(s, SkipWs(s, colon + 1), room))
        Key(key) == IF ~key.ok THEN key ELSE Colon(key, SkipWs(s, key.end))
    IN  IF Ch(s, index) # "\"" THEN ScanError(MsgPropertyName, index, room)
        ELSE Key(ScanString(s, index, index + 1, <<>>, room))

\* The loop of the array decoder, at the index where a value must start.
ArrayItems(s, start, index, room) ==
    LET Separator(after) ==
            IF Ch(s, after) = "]"
            THEN Decoded(JList(SubSeq(s, start + 1, after + 1)), after + 1)
            ELSE IF Ch(s, after) # "," THEN ScanError(MsgComma, after, room)
            ELSE ArrayItems(s, start, SkipWs(s, after + 1), room)
        Item(v) == IF ~v.ok THEN DecodeError(v.msg, v.pos) ELSE Separator(SkipWs(s, v.end))
    IN  Item(ScanOnce(s, index, room))

\* scan_once: the value that starts at index, room being the number of
\* nested objects and arrays that may still be entered.
ScanOnce(s, index, room) ==
    LET c == Ch(s, index)
        first == SkipWs(s, index + 1)
    IN  IF c = "" THEN DecodeError(MsgExpectingValue, index)
        ELSE IF c = "\"" THEN ScanString(s, index, index + 1, <<>>, room)
        ELSE IF c = "{"
        THEN IF room <= 0
             THEN DecodeError(MsgRecursion(
                      <<" ", "w", "h", "i", "l", "e", " ", "d", "e", "c",
                        "o", "d", "i", "n", "g", " ", "a", " ", "J", "S",
                        "O", "N", " ", "o", "b", "j", "e", "c", "t", " ",
                        "f", "r", "o", "m", " ", "a", " ", "u", "n", "i",
                        "c", "o", "d", "e", " ", "s", "t", "r", "i", "n",
                        "g">>), -2)
             ELSE IF Ch(s, first) = "}"
             THEN Decoded(JDict(SubSeq(s, index + 1, first + 1)), first + 1)
             ELSE ObjectMembers(s, index, first, JMissing, JMissing, room - 1)
        ELSE IF c = "["
        THEN IF room <= 0
             THEN DecodeError(MsgRecursion(
                      <<" ", "w", "h", "i", "l", "e", " ", "d", "e", "c",
                        "o", "d", "i", "n", "g", " ", "a", " ", "J", "S",
                        "O", "N", " ", "a", "r", "r", "a", "y", " ", "f",
                        "r", "o", "m", " ", "a", " ", "u", "n", "i", "c",
                        "o", "d", "e", " ", "s", "t", "r", "i", "n", "g">>), -2)
             ELSE IF Ch(s, first) = "]"
             THEN Decoded(JList(SubSeq(s, index + 1, first + 1)), first + 1)
             ELSE ArrayItems(s, index, first, room - 1)
        ELSE IF Matches(s, index, <<"n","u","l","l">>) THEN Decoded(JNull, index + 4)
        ELSE IF Matches(s, index, <<"t","r","u","e">>)
        THEN Decoded(JBool(<<"t","r","u","e">>), index + 4)
        ELSE IF Matches(s, index, <<"f","a","l","s","e">>)
        THEN Decoded(JBool(<<"f","a","l","s","e">>), index + 5)
        ELSE IF Matches(s, index, <<"N","a","N">>)
        THEN Decoded(JFloat(<<"N","a","N">>), index + 3)
        ELSE IF Matches(s, index, <<"I","n","f","i","n","i","t","y">>)
        THEN Decoded(JFloat(<<"I","n","f","i","n","i","t","y">>), index + 8)
        ELSE IF Matches(s, index, <<"-","I","n","f","i","n","i","t","y">>)
        THEN Decoded(JFloat(<<"-","I","n","f","i","n","i","t","y">>), index + 9)
        ELSE MatchNumber(s, index)

\* str(e) of a JSONDecodeError: "msg: line L column C (char pos)".
DecodeErrorText(s, msg, pos) ==
    LET newlines == {i \in 1..pos : s[i] = "\n"}
        lineno == Cardinality(newlines) + 1
        colno == IF newlines = {} THEN pos + 1 ELSE pos - SetMax(newlines) + 1
    IN  msg \o <<":"," ","l","i","n","e"," ">> \o DecStr(lineno) \o <<" ","c","o","l","u","m","n"," ">> \o DecStr(colno)
            \o <<" ","(","c","h","a","r"," ">> \o DecStr(pos) \o <<")">>

\* json.loads(s): the decoded value (for an object, its "category" and
\* "reason"), or the class exc and the text msg of the exception raised.
\* room is the depth of nested objects and arrays the recursion limit of the
\* interpreter allows where json.loads is called.
JsonLoads(s, room) ==
    LET Raise(exc, msg) ==
            [ok |-> FALSE, val |-> JNull, category |-> JMissing, reason |-> JMissing,
             exc |-> exc, msg |-> msg]
        Fail(msg, pos) == Raise("JSONDecodeError", DecodeErrorText(s, msg, pos))
        End(r, end) ==
            IF end # Len(s) THEN Fail(MsgExtraData, end)
            ELSE [ok |-> TRUE, val |-> r.val, category |-> r.category, reason |-> r.reason,
                  exc |-> "", msg |-> <<>>]
        Value(r) ==
            IF ~r.ok
            THEN (IF r.pos = -1 THEN Raise("ValueError", r.msg)
                  ELSE IF r.pos = -2 THEN Raise("RecursionError", r.msg)
                  ELSE Fail(r.msg, r.pos))
            ELSE End(r, SkipWs(s, r.end))
    IN  IF Ch(s, 0) = "\\ufeff" THEN Fail(MsgBOM, 0)
        ELSE Value(ScanOnce(s, SkipWs(s, 0), room))

\* normalize_category without the final fallback: an unmatched string is
\* returned as it is.
normalize_category_NoFallback(e, cat) ==
    IF cat.t # "str" THEN CatOther
    ELSE LET cat_norm == Strip(cat.s)
             A == ALLOWED_CATEGORIES(e)
             hits == {i \in 1..Len(A) : LowerEquals(cat_norm, A[i])}
         IN  IF hits = {} THEN cat_norm ELSE A[SetMin(hits)]

\* normalize_category matching a label that starts with the input.
normalize_category_Prefix(e, cat) ==
    IF cat.t # "str" THEN CatOther
    ELSE LET cat_norm == Strip(cat.s)
             A == ALLOWED_CATEGORIES(e)
             hits == {i \in 1..Len(A) :
                        /\ Len(cat_norm) <= Len(A[i])
                        /\ LowerEquals(cat_norm, SubSeq(A[i], 1, Len(cat_norm)))}
         IN  IF hits = {} THEN CatOther ELSE A[SetMin(hits)]

(***************************************************************************)
(* normalize_category: case-insensitive, trimmed exact match against the   *)
(* allowed list; anything else, and every non-string, is "Other".          *)
(***************************************************************************)
normalize_category(e, cat) ==
    IF cat.t # "str" THEN CatOther
    ELSE LET cat_norm == Strip(cat.s)
             A == ALLOWED_CATEGORIES(e)
             hits == {i \in 1..Len(A) : LowerEquals(cat_norm, A[i])}
         IN  IF hits = {} THEN CatOther ELSE A[SetMin(hits)]

(***************************************************************************)
(* The model's reply: the concatenated text blocks of the response.        *)
(***************************************************************************)
\* "category": "No Use", "reason": " r"
MembersNoUse ==
    <<"\"", "c", "a", "t", "e", "g", "o", "r", "y", "\"", ":", " ", "\"", "N",
      "o", " ", "U", "s", "e", "\"", ",", " ", "\"", "r", "e", "a", "s", "o",
      "n", "\"", ":", " ", "\"", " ", "r", "\"">>

\* {"category": "No Use", "reason": " r"}
ObjectNoUse == <<"{">> \o MembersNoUse \o <<"}">>

\*  x{"category": "No Use", "reason": " r"}x
ReplyNoUse == <<" ", "x">> \o ObjectNoUse \o <<"x">>

\* {"category": null, "reason": ""}
ReplyNullCategory ==
    <<"{", "\"", "c", "a", "t", "e", "g", "o", "r", "y", "\"", ":", " ", "n",
      "u", "l", "l", ",", " ", "\"", "r", "e", "a", "s", "o", "n", "\"", ":",
      " ", "\"", "\"", "}">>

\* }x{
ReplyGarbage == <<"}","x","{">>

\* {"category": " cheating concerns "}
ReplyPadded ==
    <<"{", "\"", "c", "a", "t", "e", "g", "o", "r", "y", "\"", ":", " ", "\"",
      " ", "c", "h", "e", "a", "t", "i", "n", "g", " ", "c", "o", "n", "c",
      "e", "r", "n", "s", " ", "\"", "}">>

\* {"category": "mixed views", "reason": null}
ReplyNullReason ==
    <<"{", "\"", "c", "a", "t", "e", "g", "o", "r", "y", "\"", ":", " ", "\"",
      "m", "i", "x", "e", "d", " ", "v", "i", "e", "w", "s", "\"", ",", " ",
      "\"", "r", "e", "a", "s", "o", "n", "\"", ":", " ", "n", "u", "l", "l",
      "}">>

\* {"category": "banana", "reason": 5}
ReplyNumReason ==
    <<"{", "\"", "c", "a", "t", "e", "g", "o", "r", "y", "\"", ":", " ", "\"",
      "b", "a", "n", "a", "n", "a", "\"", ",", " ", "\"", "r", "e", "a", "s",
      "o", "n", "\"", ":", " ", "5", "}">>

\* {"category": "banana", "reason": 0}
ReplyZeroReason ==
    <<"{", "\"", "c", "a", "t", "e", "g", "o", "r", "y", "\"", ":", " ", "\"",
      "b", "a", "n", "a", "n", "a", "\"", ",", " ", "\"", "r", "e", "a", "s",
      "o", "n", "\"", ":", " ", "0", "}">>

\* "category": "No Use", "reason": "{}"
ReplyBracesInReason ==
    <<"\"", "c", "a", "t", "e", "g", "o", "r", "y", "\"", ":", " ", "\"", "N",
      "o", " ", "U", "s", "e", "\"", ",", " ", "\"", "r", "e", "a", "s", "o",
      "n", "\"", ":", " ", "\"", "{", "}", "\"">>

\* Replies of the client when classify_text is called directly.
Responses ==
    { ReplyNoUse, ReplyPadded, ReplyNullReason, ReplyNumReason, ReplyZeroReason,
      ReplyNullCategory, ReplyBracesInReason, ReplyGarbage,
      <<"{"," ","}">>, <<"[","]">>, <<"{","x","}">>, <<"{","}","{","}">>, <<>> }

\* Replies of the stub client of a main() run.
MainResponses == {ReplyNoUse, ReplyNullCategory, ReplyGarbage}

Replies(h) == IF h = "main" THEN MainResponses ELSE Responses

\* str(e) of the exceptions the client raises: of an APIStatusError and of
\* an exception that is no APIStatusError, JSONDecodeError or KeyError.
Messages(h) == IF h = "main" THEN {<<>>} ELSE {<<>>, <<"e">>}

\* str(e) of the KeyError and json.JSONDecodeError exceptions the client
\* raises: KeyError(), and JSONDecodeError("", "", 0).
ParseClassMessages(h) ==
    IF h = "main" THEN {<<>>}
    ELSE {<<>>,
          <<":", " ", "l", "i", "n", "e", " ", "1", " ", "c", "o", "l", "u", "m", "n",
            " ", "1", " ", "(", "c", "h", "a", "r", " ", "0", ")">>}

\* Status codes the client raises with APIStatusError.
StatusCodes(h) == IF h = "main" THEN {429, 400} ELSE {429, 500, 502, 503, 504, 400}

\* The region ending at the first "}" instead of the last.
JsonRegion_FirstClose(full) ==
    LET start == Find(full, "{")
        end == Find(full, "}")
    IN  IF start # -1 /\ end # -1 /\ end > start THEN Slice(full, start, end) ELSE full

\* The text handed to json.loads: from the first "{" through the last "}"
\* when both exist in that order, else the whole text.
JsonRegion(full) ==
    LET start == Find(full, "{")
        end == RFind(full, "}")
    IN  IF start # -1 /\ end # -1 /\ end > start THEN Slice(full, start, end) ELSE full

\* The try block after the client call returned the text raw.  path is "ok"
\* (the function returns), "json_error" (json.JSONDecodeError) or
\* "other_error" (ValueError: an integer of too many digits; RecursionError:
\* values nested deeper than room; AttributeError: the decoded value is no
\* dict, or reason is a true value without strip); msg is str(e) of the
\* exception.
ParseResponse(e, raw, room) ==
    LET Outcome(full, path, category, detail, msg) ==
            [path |-> path, category |-> category, detail |-> detail,
             full |-> full, msg |-> msg]
        Returned(full, data, category) ==
            IF e = "scripts" THEN Outcome(full, "ok", category, full, <<>>)
            ELSE IF ~Truthy(data.reason) THEN Outcome(full, "ok", category, <<>>, <<>>)
            ELSE IF data.reason.t # "str"
            THEN Outcome(full, "other_error", CatOther, <<>>,
                         AttributeMsg(data.reason, <<"s","t","r","i","p">>))
            ELSE Outcome(full, "ok", category, Strip(data.reason.s), <<>>)
        Loaded(full, data) ==
            IF ~data.ok
            THEN Outcome(full, IF data.exc = "JSONDecodeError" THEN "json_error"
                               ELSE "other_error", CatOther, <<>>, data.msg)
            ELSE IF data.val.t # "dict"
            THEN Outcome(full, "other_error", CatOther, <<>>,
                         AttributeMsg(data.val, <<"g","e","t">>))
            ELSE Returned(full, data,
                          normalize_category(e, IF data.category.t = "missing"
                                                THEN JStr(CatOther) ELSE data.category))
        Combined(full) == Loaded(full, JsonLoads(JsonRegion(full), room))
    IN  Combined(Strip(raw))

\* The depth of nested objects and arrays json.loads decodes under the
\* interpreter's default recursion limit of 1000: 993 where main() calls
\* classify_text, 994 where the top level of a script calls it.
RecursionRoom(h) == IF h = "main" THEN 993 ELSE 994

\* What the try block makes of each reply the client can return.
ParsedRootCall ==
    {ParseResponse("root", raw, RecursionRoom("call")) : raw \in Replies("call")}
ParsedScriptsCall ==
    {ParseResponse("scripts", raw, RecursionRoom("call")) : raw \in Replies("call")}
ParsedRootMain ==
    {ParseResponse("root", raw, RecursionRoom("main")) : raw \in Replies("main")}
ParsedScriptsMain ==
    {ParseResponse("scripts", raw, RecursionRoom("main")) : raw \in Replies("main")}
Parsed(e, h) ==
    IF h = "main"
    THEN (IF e = "root" THEN ParsedRootMain ELSE ParsedScriptsMain)
    ELSE (IF e = "root" THEN ParsedRootCall ELSE ParsedScriptsCall)

(***************************************************************************)
(* Diagnostics of the fallback results.                                    *)
(***************************************************************************)
\* msg is str(e) of the JSONDecodeError or KeyError, full the value of
\* full_output (the stripped reply of this attempt, or what an earlier
\* attempt left when the client raised the exception).
ParseErrorDiag(e, msg, full) ==
    IF e = "root"
    THEN <<"C","o","u","l","d"," ","n","o","t"," ","p","a","r","s","e"," ","m","o","d","e","l"," ","o","u","t","p","u","t">>
    ELSE <<"P","a","r","s","e"," ","e","r","r","o","r",":"," ">> \o msg \o <<" ","|"," ","r","a","w","=","\n">> \o full

ApiErrorDiag(e, status, msg) ==
    IF e = "root"
    THEN <<"A","P","I"," ","e","r","r","o","r",":"," ">> \o msg
    ELSE <<"A","P","I"," ","e","r","r","o","r"," ","(">> \o DecStr(status) \o <<")",":"," ">> \o msg

OtherErrorDiag(e, msg) == <<"U","n","e","x","p","e","c","t","e","d"," ","e","r","r","o","r",":"," ">> \o msg

TrailingDiag(e) == IF e = "root" THEN <<"U","n","k","n","o","w","n"," ","e","r","r","o","r">> ELSE <<>>

(***************************************************************************)
(* Input files and command-line arguments.                                 *)
(*                                                                         *)
(* A file is its lowercased extension, whether a JSON document is a list,  *)
(* its header (column names; empty for a headerless file) and the cells of *)
(* its text column, one per data row.  JNull is a blank line.              *)
(***************************************************************************)
InputColumn == "Response"

IdCell == JStr(<<"7">>)

Texts == {<<"a">>, <<"\f","b"," ">>, <<"\f">>}

SeqsUpTo(S, n) == UNION {[1..k -> S] : k \in 0..n}

Headers == {<<"Id","Response">>, <<"category","Response">>, <<"Id","Text">>, <<"Text">>}

File(ext, is_list, header, cells) ==
    [ext |-> ext, is_list |-> is_list, header |-> header, cells |-> cells]

NoFile == File("", FALSE, <<>>, <<>>)

RootFiles ==
    {File(x, TRUE, h, c) : x \in {".csv", ".json"}, h \in Headers,
                            c \in SeqsUpTo({JStr(t) : t \in Texts}, MaxRows)}
    \cup {File(".json", FALSE, <<>>, <<>>),
          File(".json", TRUE, <<"Id","Response">>, <<JStr(<<"a">>), JNum>>),
          File(".txt", FALSE, <<"Id","Response">>, <<JStr(<<"a">>)>>)}

ScriptsFiles ==
    {File(".csv", FALSE, <<>>, c) : c \in SeqsUpTo({JStr(t) : t \in Texts} \cup {JNull}, MaxRows)}
    \cup {File(".json", TRUE, <<>>, <<JStr(<<"a">>)>>)}

OutExts == {".json", ".csv", ".txt"}

Error(type, msg, column, headers) ==
    [type |-> type, msg |-> msg, column |-> column, headers |-> headers]

NoError == Error("none", "", "", <<>>)

NoRet == [category |-> <<>>, detail |-> <<>>]

Range(f) == {f[i] : i \in DOMAIN f}

\* The text column of a header: the selected column when present, else the
\* last column.
TextColumn(header) == IF InputColumn \in Range(header) THEN InputColumn ELSE header[Len(header)]

\* csv.DictReader rows / the objects of a JSON list: one dict per data row.
RowDicts(f) ==
    [k \in 1..Len(f.cells) |->
        [c \in Range(f.header) |-> IF c = TextColumn(f.header) THEN f.cells[k] ELSE IdCell]]

\* load_records(input_path, input_column): the rows, or the error raised.
load_records(f, input_column) ==
    LET rows == RowDicts(f)
        Ok(r) == [ok |-> TRUE, rows |-> r, error |-> NoError]
        Fail(err) == [ok |-> FALSE, rows |-> <<>>, error |-> err]
    IN  IF f.ext = ".csv"
        THEN IF rows = <<>> THEN Ok(<<>>)
             ELSE IF input_column \notin DOMAIN rows[1]
             THEN Fail(Error("ValueError", "Column not found in CSV headers", input_column, f.header))
             ELSE Ok(rows)
        ELSE IF f.ext = ".json"
        THEN IF ~f.is_list THEN Fail(Error("ValueError", "JSON must be a list of objects.", "", <<>>))
             ELSE IF rows = <<>> THEN Ok(<<>>)
             ELSE IF input_column \notin DOMAIN rows[1]
             THEN Fail(Error("ValueError", "Key not found in JSON objects", input_column, f.header))
             ELSE Ok(rows)
        ELSE Fail(Error("ValueError", "Input file must be .csv or .json", "", <<>>))

\* The loop of read_csv_answers: the stripped first field of every
\* non-blank row, when it is not empty.
RECURSIVE AnswersOf(_)
AnswersOf(cells) ==
    IF cells = <<>> THEN <<>>
    ELSE LET c == Head(cells)
             text == IF c.t = "str" THEN Strip(c.s) ELSE <<>>
         IN  IF c.t = "str" /\ text # <<>>
             THEN <<text>> \o AnswersOf(Tail(cells))
             ELSE AnswersOf(Tail(cells))

\* read_csv_answers(input_path): the answers, or the error raised.
read_csv_answers(f) ==
    IF f.ext # ".csv"
    THEN [ok |-> FALSE, answers |-> <<>>,
          error |-> Error("ValueError", "Input file must be .csv", "", <<>>)]
    ELSE [ok |-> TRUE, answers |-> AnswersOf(f.cells), error |-> NoError]

\* row.get(input_column)
RowGet(row, input_column) == IF input_column \in DOMAIN row THEN row[input_column] ELSE JNull

\* (row.get(input_column) or "").strip(): the text, or the AttributeError
\* raised when the cell is a true value that is no string.
RowText(row, input_column) ==
    LET cell == RowGet(row, input_column)
    IN  IF ~Truthy(cell) THEN [ok |-> TRUE, text |-> <<>>, error |-> NoError]
        ELSE IF cell.t = "str" THEN [ok |-> TRUE, text |-> Strip(cell.s), error |-> NoError]
        ELSE [ok |-> FALSE, text |-> <<>>,
              error |-> Error("AttributeError",
                              "'" \o cell.t \o "' object has no attribute 'strip'", "", <<>>)]

\* The output extension test of each main().
ValidOutExt(e, ext) == IF e = "root" THEN ext \in {".json", ".csv"} ELSE ext = ".json"

(***************************************************************************)
(* build_summary.  Percentages are integers in hundredths of a percent:    *)
(* round(x, 2) of the float x = count * 100.0 / total.                     *)
(***************************************************************************)
\* The occurrences counted from the second element on.
Count_SkipFirst(seq, x) == Cardinality({i \in 2..Len(seq) : seq[i] = x})

Count(seq, x) == Cardinality({i \in 1..Len(seq) : seq[i] = x})

\* The exponent e of a / b: 2^e <= a / b < 2^(e + 1), for a, b > 0.
RECURSIVE BinaryExponent(_, _)
BinaryExponent(a, b) ==
    IF a >= 2 * b THEN BinaryExponent(a, 2 * b) + 1
    ELSE IF a < b THEN BinaryExponent(2 * a, b) - 1
    ELSE 0

\* 2^k modulo 25
RECURSIVE Pow2Mod25(_)
Pow2Mod25(k) == IF k = 0 THEN 1 ELSE (2 * Pow2Mod25(k - 1)) % 25

\* Whether the float nearest to m / 200 (m odd) lies below it, on it or
\* above it: -1, 0 or 1.  With 2^e <= m / 200 < 2^(e + 1) the float is a
\* multiple of 2^(e - 52), and m / 200 is m * 2^(49 - e) / 25 of them.
FloatSide(m) ==
    LET e == BinaryExponent(m, 200)
        rem == ((m % 25) * Pow2Mod25(49 - e)) % 25
    IN  IF rem = 0 THEN 0 ELSE IF rem <= 12 THEN -1 ELSE 1

\* The percentage rounded to a whole percent instead of to two decimals.
RoundPercent_WholePercent(count, total) ==
    LET q == (count * 100) \div total
        r == (count * 100) % total
    IN  100 * (IF 2 * r < total THEN q
               ELSE IF 2 * r > total THEN q + 1
               ELSE IF q % 2 = 0 THEN q ELSE q + 1)

\* The quotient truncated instead of rounded.
RoundPercent_Truncate(count, total) == (count * 10000) \div total

\* round(count * 100.0 / total, 2) in hundredths, for count >= 0 and
\* total > 0.  The quotient is rounded to a float first: a value half-way
\* between two hundredths goes the way its float lies, and to the even
\* hundredth when the float is exact.
RoundPercent(count, total) ==
    LET q == (count * 10000) \div total
        r == (count * 10000) % total
        side == FloatSide(2 * q + 1)
    IN  IF 2 * r < total THEN q
        ELSE IF 2 * r > total THEN q + 1
        ELSE IF side < 0 THEN q
        ELSE IF side > 0 THEN q + 1
        ELSE IF q % 2 = 0 THEN q ELSE q + 1

build_summary(e, cats) ==
    LET total == Len(cats)
        counts == [label \in AllowedSet(e) \cup Range(cats) |-> Count(cats, label)]
        percents == [label \in AllowedSet(e) |->
                        IF total = 0 THEN 0
                        ELSE RoundPercent(counts[label], total)]
    IN  [total_inputs |-> total, category_counts |-> counts, category_percents |-> percents]

NoSummary == [total_inputs |-> 0, category_counts |-> <<>>, category_percents |-> <<>>]

(***************************************************************************)
(* State.                                                                  *)
(***************************************************************************)
VARIABLES
    harness,       \* "main": main() runs; "call": classify_text is called directly
    entry,         \* "root" or "scripts"
    out_ext,       \* lowercased extension of args.output_path
    has_key,       \* an API key is configured
    file,          \* the input file, NoFile once it has been read
    pc,            \* position of the program
    rows,          \* root main: rows returned by load_records
    answers,       \* scripts main: answers returned by read_csv_answers
    idx,           \* number of records the main loop has taken
    text,          \* classify_text: the text argument
    max_retries,   \* classify_text: the max_retries argument
    attempt,       \* classify_text: the loop variable
    delay,         \* classify_text: the current backoff delay
    full_output,   \* scripts classify_text: full_output, "" while it is not bound
    ret,           \* value returned by classify_text
    results,       \* root: results; scripts: records
    categories,    \* scripts: categories
    output,        \* what was written to the output path
    error,         \* the exception that ended the run
    \* history of the run, read by the properties only
    loaded,        \* the input file has been opened and read
    input_cells,   \* the text cells of the input file as read
    classified,    \* the text of every classify_text call, in order
    calls,         \* client calls made by the current classify_text call
    sleeps,        \* backoff sleeps of the current classify_text call, in order
    last,          \* outcome of the latest client call of the current call
    all_transient, \* every failed attempt of the current call was a retryable API error
    pauses,        \* courtesy pauses of the main loop, in milliseconds, in order
    arg,           \* a function called on its own: its argument
    res            \* a function called on its own: its result

vars == <<harness, entry, out_ext, has_key, file, pc, rows, answers, idx, text,
          max_retries, attempt, delay, full_output, ret, results, categories, output,
          error,
          loaded, input_cells, classified, calls, sleeps, last, all_transient, pauses,
          arg, res>>

args == <<harness, entry, out_ext, has_key>>
fncall == <<arg, res>>
loopvars == <<rows, answers, idx, results, categories, output, pauses>>
inputvars == <<file, loaded, input_cells>>

NoOutput == [written |-> FALSE, data |-> <<>>, summary |-> NoSummary]

\* No client call has been made by the current classify_text call.
NoCall == [kind |-> "none", status |-> 0, slept |-> FALSE]

InitCommon ==
    /\ rows = <<>> /\ answers = <<>> /\ idx = 0
    /\ attempt = 0 /\ delay = InitialDelay /\ full_output = <<>> /\ ret = NoRet
    /\ results = <<>> /\ categories = <<>>
    /\ output = NoOutput /\ error = NoError
    /\ loaded = FALSE /\ input_cells = <<>> /\ classified = <<>>
    /\ calls = 0 /\ sleeps = <<>> /\ last = NoCall /\ all_transient = TRUE
    /\ pauses = <<>>

\* main() is started with some arguments, environment and input file.
InitMain ==
    /\ harness = "main"
    /\ entry \in {"root", "scripts"}
    /\ out_ext \in OutExts
    /\ has_key \in BOOLEAN
    /\ file \in (IF entry = "root" THEN RootFiles ELSE ScriptsFiles)
    /\ pc = "start"
    /\ text = <<>>
    /\ max_retries = DefaultMaxRetries

\* classify_text(client, model, text, max_retries) is about to be called.
InitCall ==
    /\ harness = "call"
    /\ entry \in {"root", "scripts"}
    /\ out_ext = ".json"
    /\ has_key = TRUE
    /\ file = NoFile
    /\ pc = "enter"
    /\ text \in {<<"a">>, <<>>}
    /\ max_retries \in -1..MaxRetriesArg

\* No function is called on its own in a run of main() or of classify_text.
NoArg == <<>>
NoRes == <<>>

Init == InitCommon /\ (InitMain \/ InitCall) /\ arg = NoArg /\ res = NoRes

(***************************************************************************)
(* main(): argument and environment checks made before the input is read.  *)
(* scripts checks the output extension first; root checks only the key.    *)
(***************************************************************************)
Configure ==
    /\ pc = "start"
    /\ IF entry = "scripts" /\ ~ValidOutExt(entry, out_ext)
       THEN /\ pc' = "error"
            /\ error' = Error("ValueError", "Output file must be .json", "", <<>>)
       ELSE IF ~has_key
       THEN /\ pc' = "error"
            /\ error' = Error("RuntimeError", "Set ANTHROPIC_API_KEY in your environment.", "", <<>>)
       ELSE /\ pc' = "load"
            /\ UNCHANGED error
    /\ UNCHANGED <<args, fncall, inputvars, loopvars, text, max_retries, attempt, delay, ret,
                   classified, calls, sleeps, last, all_transient, full_output>>

\* rows = load_records(...) / answers = read_csv_answers(...)
LoadInput ==
    /\ pc = "load"
    /\ LET opened == IF entry = "root" THEN file.ext \in {".csv", ".json"} ELSE file.ext = ".csv"
           r == load_records(file, InputColumn)
           a == read_csv_answers(file)
           ok == IF entry = "root" THEN r.ok ELSE a.ok
       IN  /\ loaded' = opened
           /\ input_cells' = IF opened THEN file.cells ELSE <<>>
           /\ file' = IF opened THEN NoFile ELSE file
           /\ rows' = IF entry = "root" THEN r.rows ELSE <<>>
           /\ answers' = IF entry = "scripts" THEN a.answers ELSE <<>>
           /\ error' = IF entry = "root" THEN r.error ELSE a.error
           /\ pc' = IF ok THEN "loop" ELSE "error"
    /\ UNCHANGED <<args, fncall, idx, results, categories, output, pauses, text, max_retries,
                   attempt, delay, ret, classified, calls, sleeps, last, all_transient, full_output>>

NumRecords == IF entry = "root" THEN Len(rows) ELSE Len(answers)

\* The loop takes the next record and calls classify_text on its text.
LoopNext ==
    /\ pc = "loop" /\ harness = "main"
    /\ idx < NumRecords
    /\ idx' = idx + 1
    /\ LET t == IF entry = "root" THEN RowText(rows[idx + 1], InputColumn)
                ELSE [ok |-> TRUE, text |-> answers[idx + 1], error |-> NoError]
       IN  IF t.ok
           THEN /\ text' = t.text
                /\ max_retries' = DefaultMaxRetries
                /\ pc' = "enter"
                /\ UNCHANGED error
           ELSE /\ pc' = "error"
                /\ error' = t.error
                /\ UNCHANGED <<text, max_retries>>
    /\ UNCHANGED <<args, fncall, inputvars, rows, answers, results, categories, output, pauses,
                   attempt, delay, ret, classified, calls, sleeps, last, all_transient, full_output>>

(***************************************************************************)
(* classify_text.                                                          *)
(***************************************************************************)
\* Entry of classify_text: the prompt is built and delay = 1.0.
ClassifyStart ==
    /\ pc = "enter"
    /\ pc' = "classify"
    /\ attempt' = 0
    /\ delay' = InitialDelay
    /\ classified' = Append(classified, text)
    /\ calls' = 0 /\ sleeps' = <<>> /\ last' = NoCall /\ all_transient' = TRUE
    /\ full_output' = <<>>
    /\ UNCHANGED <<args, fncall, inputvars, loopvars, text, max_retries, ret, error>>

\* The doubling without the cap.
NextDelay_NoCap(d) == d * 2

\* delay = min(delay * 2, 16)
NextDelay(d) == Min2(d * 2, DelayCap)

\* The JSONDecodeError block without its return on the last attempt.
HandleParseError_NoReturn(att, maxr) ==
    [return |-> FALSE, sleep |-> FALSE]

\* The except Exception block sleeping before it tests for the last attempt.
HandleOtherError_SleepFirst(att, maxr) ==
    [return |-> att = maxr - 1, sleep |-> TRUE]

\* What each except block does on attempt att of maxr: return the fallback,
\* or go on to the next attempt, with or without a backoff sleep.
HandleParseError(att, maxr) ==
    [return |-> att = maxr - 1, sleep |-> FALSE]

\* The APIStatusError block going on after a retryable status without
\* testing for the last attempt.
HandleApiError_AlwaysContinue(status, att, maxr) ==
    IF status \in RetryableStatusCodes
    THEN [return |-> FALSE, sleep |-> att < maxr - 1]
    ELSE [return |-> att = maxr - 1, sleep |-> FALSE]

HandleApiError(status, att, maxr) ==
    IF status \in RetryableStatusCodes /\ att < maxr - 1
    THEN [return |-> FALSE, sleep |-> TRUE]
    ELSE [return |-> att = maxr - 1, sleep |-> FALSE]

HandleOtherError(att, maxr) ==
    [return |-> att = maxr - 1, sleep |-> att # maxr - 1]

\* A failed attempt: the client call, which leaves full_output as it is when
\* it raises and is followed by the assignment of full when it returns, then
\* the except block's decision h.  The locals end with the call.
FailedAttempt(h, kind, status, diag, full) ==
    /\ calls' = calls + 1
    /\ full_output' = IF h.return \/ entry = "root" THEN <<>> ELSE full
    /\ last' = [kind |-> kind, status |-> status, slept |-> h.sleep]
    /\ all_transient' = (all_transient /\ kind = "api" /\ status \in RetryableStatusCodes)
    /\ IF h.sleep
       THEN /\ sleeps' = Append(sleeps, delay)
            /\ delay' = NextDelay(delay)
       ELSE UNCHANGED <<sleeps, delay>>
    /\ IF h.return
       THEN /\ ret' = [category |-> CatOther, detail |-> diag]
            /\ pc' = "returned"
            /\ UNCHANGED attempt
       ELSE /\ attempt' = attempt + 1
            /\ UNCHANGED <<pc, ret>>

InLoop == pc = "classify" /\ attempt < max_retries

frame == <<args, fncall, inputvars, loopvars, text, max_retries, error, classified>>

\* The client returns text that parses: classify_text returns the result.
AttemptSuccess ==
    /\ InLoop
    /\ \E p \in Parsed(entry, harness) :
        /\ p.path = "ok"
        /\ ret' = [category |-> p.category, detail |-> p.detail]
    /\ pc' = "returned"
    /\ calls' = calls + 1
    /\ last' = [kind |-> "ok", status |-> 0, slept |-> FALSE]
    /\ full_output' = <<>>
    /\ UNCHANGED <<frame, attempt, delay, sleeps, all_transient>>

\* The except (json.JSONDecodeError, KeyError) block: the client returns
\* text and json.loads raises JSONDecodeError, or the client call itself
\* raises an exception of one of the two classes.
AttemptParseError ==
    /\ InLoop
    /\ \/ \E p \in Parsed(entry, harness) :
            /\ p.path = "json_error"
            /\ FailedAttempt(HandleParseError(attempt, max_retries), "parse", 0,
                             ParseErrorDiag(entry, p.msg, p.full), p.full)
       \/ \E msg \in ParseClassMessages(harness) :
            FailedAttempt(HandleParseError(attempt, max_retries), "parse", 0,
                          ParseErrorDiag(entry, msg, full_output), full_output)
    /\ UNCHANGED frame

\* The client raises APIStatusError.
AttemptApiError ==
    /\ InLoop
    /\ \E status \in StatusCodes(harness), msg \in Messages(harness) :
        FailedAttempt(HandleApiError(status, attempt, max_retries), "api", status,
                      ApiErrorDiag(entry, status, msg), full_output)
    /\ UNCHANGED frame

\* The except Exception block: an exception of any other class, raised by
\* the client, or by the handling of a reply that decodes to something the
\* code cannot use.
AttemptOtherError ==
    /\ InLoop
    /\ \/ \E msg \in Messages(harness) :
            FailedAttempt(HandleOtherError(attempt, max_retries), "other", 0,
                          OtherErrorDiag(entry, msg), full_output)
       \/ \E p \in Parsed(entry, harness) :
            /\ p.path = "other_error"
            /\ FailedAttempt(HandleOtherError(attempt, max_retries), "other", 0,
                             OtherErrorDiag(entry, p.msg), p.full)
    /\ UNCHANGED frame

\* The return after the loop.
TrailingReturn ==
    /\ pc = "classify" /\ attempt >= max_retries
    /\ ret' = [category |-> CatOther, detail |-> TrailingDiag(entry)]
    /\ pc' = "returned"
    /\ full_output' = <<>>
    /\ UNCHANGED <<frame, attempt, delay, calls, sleeps, last, all_transient>>

(***************************************************************************)
(* main(): the rest of the loop body, and the code after the loop.         *)
(***************************************************************************)
\* out_row = dict(row); out_row["category"] = ...; out_row["reason"] = ...
OutRow(row, category, reason) ==
    [k \in DOMAIN row \cup {"category", "reason"} |->
        IF k = "category" THEN JStr(category)
        ELSE IF k = "reason" THEN JStr(reason)
        ELSE row[k]]

ScriptRecord(input, out, category) ==
    [input |-> input, output |-> out, category |-> category]

\* The record built from the first row instead of the current one.
NewRecord_FirstRow ==
    IF entry = "root" THEN OutRow(rows[1], ret.category, ret.detail)
    ELSE ScriptRecord(answers[1], ret.detail, ret.category)

\* The record appended for the current row.
NewRecord ==
    IF entry = "root" THEN OutRow(rows[idx], ret.category, ret.detail)
    ELSE ScriptRecord(text, ret.detail, ret.category)

\* time.sleep(0.1) / time.sleep(0.05) at the end of the loop body, in
\* milliseconds.
CourtesyPause(e) == IF e = "root" THEN 100 ELSE 50

\* The loop body without its courtesy pause.
LoopAppend_NoPause ==
    /\ pc = "returned" /\ harness = "main"
    /\ results' = Append(results, NewRecord)
    /\ categories' = IF entry = "scripts" THEN Append(categories, ret.category) ELSE categories
    /\ pc' = "loop"
    /\ ret' = NoRet /\ attempt' = 0 /\ delay' = InitialDelay
    /\ calls' = 0 /\ sleeps' = <<>> /\ last' = NoCall /\ all_transient' = TRUE
    /\ full_output' = <<>>
    /\ UNCHANGED <<args, fncall, inputvars, rows, answers, idx, output, text, max_retries,
                   error, classified, pauses>>

\* classify_text returned: append the record, then the courtesy pause.
LoopAppend ==
    /\ pc = "returned" /\ harness = "main"
    /\ results' = Append(results, NewRecord)
    /\ categories' = IF entry = "scripts" THEN Append(categories, ret.category) ELSE categories
    /\ pauses' = Append(pauses, CourtesyPause(entry))
    /\ pc' = "loop"
    /\ ret' = NoRet /\ attempt' = 0 /\ delay' = InitialDelay
    /\ calls' = 0 /\ sleeps' = <<>> /\ last' = NoCall /\ all_transient' = TRUE
    /\ full_output' = <<>>
    /\ UNCHANGED <<args, fncall, inputvars, rows, answers, idx, output, text, max_retries,
                   error, classified>>

\* After the loop: root tests the output extension and writes the rows;
\* scripts builds the summary and writes the document.
Finish ==
    /\ pc = "loop" /\ harness = "main"
    /\ idx = NumRecords
    /\ IF entry = "root" /\ ~ValidOutExt(entry, out_ext)
       THEN /\ pc' = "error"
            /\ error' = Error("ValueError", "Output file must be .json or .csv", "", <<>>)
            /\ UNCHANGED output
       ELSE /\ pc' = "done"
            /\ output' = [written |-> TRUE, data |-> results,
                          summary |-> IF entry = "scripts"
                                      THEN build_summary(entry, categories)
                                      ELSE NoSummary]
            /\ UNCHANGED error
    /\ UNCHANGED <<args, fncall, inputvars, rows, answers, idx, results, categories, pauses,
                   text, max_retries, attempt, delay, ret, classified, calls, sleeps,
                   last, all_transient, full_output>>

Next ==
    \/ Configure
    \/ LoadInput
    \/ LoopNext
    \/ ClassifyStart
    \/ AttemptSuccess
    \/ AttemptParseError
    \/ AttemptApiError
    \/ AttemptOtherError
    \/ TrailingReturn
    \/ LoopAppend
    \/ Finish

Spec == Init /\ [][Next]_vars

(***************************************************************************)
(* The pure functions, each called on its own on an argument drawn from a  *)
(* bounded set.                                                            *)
(***************************************************************************)
\* Lists of labels of the scripts list, as main() collects them in categories.
SummaryInputs == SeqsUpTo(AllowedSet("scripts"), MaxCats)

Banana == <<"b","a","n","a","n","a">>

\* Values handed to normalize_category: every label of the longer list as
\* it is, lowercased, padded with spaces, between a form feed and a
\* no-break space, without its last character,
\* without its first character and with a character added; a word that is
\* no label, the empty string, None and a number.
NormalizeInputs ==
    UNION {{JStr(label),
            JStr(LowerLabel(label)),
            JStr(<<" ">> \o LowerLabel(label) \o <<" ">>),
            JStr(<<"\f">> \o label \o <<"\\u00a0">>),
            JStr(SubSeq(label, 1, Len(label) - 1)),
            JStr(Tail(label)),
            JStr(label \o <<"!">>)} : label \in AllowedSet("root")}
    \cup {JStr(Banana), JStr(<<>>), JNull, JNum}

\* Replies handed to the parsing steps of classify_text: every text made
\* of up to MaxRaw pieces, a piece being a letter, a space, a brace or the
\* members of a JSON object with category "No Use" and reason " r".
RawTokens == {<<"x">>, <<" ">>, <<"{">>, <<"}">>, MembersNoUse}

RECURSIVE Concat(_)
Concat(pieces) == IF pieces = <<>> THEN <<>> ELSE Head(pieces) \o Concat(Tail(pieces))

ParseInputs == {Concat(pieces) : pieces \in SeqsUpTo(RawTokens, MaxRaw)}

\* Nothing else of the program runs during such a call.
InitFn ==
    /\ InitCommon
    /\ out_ext = ".json" /\ has_key = TRUE /\ file = NoFile
    /\ pc = "call" /\ text = <<>> /\ max_retries = DefaultMaxRetries
    /\ res = NoRes
    /\ \/ /\ harness = "build_summary" /\ entry = "scripts"
          /\ arg \in SummaryInputs
       \/ /\ harness = "normalize_category" /\ entry \in {"root", "scripts"}
          /\ arg \in NormalizeInputs
       \/ /\ harness = "parse" /\ entry \in {"root", "scripts"}
          /\ arg \in ParseInputs

callframe == <<args, arg, inputvars, loopvars, text, max_retries, attempt, delay, ret,
               error, classified, calls, sleeps, last, all_transient, full_output>>

\* summary = build_summary(categories)
CallBuildSummary ==
    /\ pc = "call" /\ harness = "build_summary"
    /\ res' = build_summary(entry, arg)
    /\ pc' = "called"
    /\ UNCHANGED callframe

\* normalize_category(cat)
CallNormalize ==
    /\ pc = "call" /\ harness = "normalize_category"
    /\ res' = normalize_category(entry, arg)
    /\ pc' = "called"
    /\ UNCHANGED callframe

\* The statements of the try block that follow the client call: the text
\* selected for json.loads, and what the block makes of the reply.
CallParse ==
    /\ pc = "call" /\ harness = "parse"
    /\ res' = [region |-> JsonRegion(Strip(arg)), parsed |-> ParseResponse(entry, arg, RecursionRoom(harness))]
    /\ pc' = "called"
    /\ UNCHANGED callframe

NextFn ==
    \/ CallBuildSummary
    \/ CallNormalize
    \/ CallParse

SpecFn == InitFn /\ [][NextFn]_vars

(***************************************************************************)
(* Properties.                                                             *)
(***************************************************************************)
Failed == {"parse", "api", "other"}

\* The text of the input record an output record was built from.
InputOf(rec) == IF entry = "root" THEN RowText(rec, InputColumn).text ELSE rec.input

\* The category stored in an output record.
CategoryOf(rec) == IF entry = "root" THEN rec["category"].s ELSE rec.category

\* The reason / output stored in an output record.
DetailOf(rec) == IF entry = "root" THEN rec["reason"].s ELSE rec.output

\* The i-th output record is built from the i-th loaded record.
BuiltFrom(rec, i) ==
    IF entry = "root"
    THEN /\ DOMAIN rec = DOMAIN rows[i] \cup {"category", "reason"}
         /\ \A k \in DOMAIN rows[i] \ {"category", "reason"} : rec[k] = rows[i][k]
    ELSE rec.input = answers[i]

\* C1: whatever the client did on each attempt, the output records are, in
\* order, the records built from the loaded input records: at every moment
\* of the loop one per record taken so far, and in a completed run exactly
\* one per loaded record, which is what is written.
C1_OneOutputPerInput ==
    harness = "main" =>
        /\ Len(results) <= NumRecords
        /\ \A i \in 1..Len(results) : BuiltFrom(results[i], i)
        /\ pc = "loop" => Len(results) = idx
        /\ pc = "done" => /\ Len(results) = NumRecords
                          /\ output.data = results

\* A completed run of two records or more whose first record fell back
\* after a parse failure and whose second record was classified.
C1_Witness ==
    /\ harness = "main" /\ pc = "done"
    /\ Len(results) >= 2
    /\ CategoryOf(results[1]) = CatOther
    /\ DetailOf(results[1]) = ParseErrorDiag(entry, JsonLoads(ReplyGarbage, RecursionRoom(harness)).msg, ReplyGarbage)
    /\ CategoryOf(results[2]) = CatNoUse
    /\ InputOf(results[1]) # InputOf(results[2])

\* C2: every category classify_text returns, on every return path, is one
\* of ALLOWED_CATEGORIES, and so is every category of an output record and
\* every key of the written category_counts.
C2_CategoryAllowed ==
    /\ pc = "returned" => ret.category \in AllowedSet(entry)
    /\ \A i \in 1..Len(results) : CategoryOf(results[i]) \in AllowedSet(entry)
    /\ \A i \in 1..Len(categories) : categories[i] \in AllowedSet(entry)
    /\ (output.written /\ entry = "scripts") =>
            DOMAIN output.summary.category_counts = AllowedSet(entry)

\* A reply that parsed, with a category that is no label of the scripts
\* list, was returned as "Other".
C2_Witness ==
    /\ pc = "returned" /\ last.kind = "ok" /\ entry = "scripts"
    /\ ret.category = CatOther
    /\ ret.detail = ReplyNullReason

\* C3: with max_retries >= 1, when every attempt of a call failed the call
\* raised nothing and returned "Other" with a non-empty diagnostic after
\* max_retries attempts, and main() went on: every record taken so far has
\* been handed to classify_text and the loop has not stopped on an error of
\* a call (it stops only on a record whose cell is a number, before the
\* call is made).
C3_ExhaustionFallsBack ==
    /\ (pc = "returned" /\ max_retries >= 1 /\ last.kind \in Failed) =>
            /\ ret.category = CatOther
            /\ ret.detail # <<>>
            /\ calls = max_retries
    /\ pc \in {"enter", "classify", "returned"} => error = NoError
    /\ harness = "main" =>
            Len(classified) = (IF pc = "enter" \/ (pc = "error" /\ error.type = "AttributeError")
                               THEN idx - 1 ELSE idx)
    /\ (pc = "error" /\ error.type = "AttributeError") => ~RowText(rows[idx], InputColumn).ok
    /\ (harness = "main" /\ pc = "loop" /\ idx < NumRecords) => ENABLED LoopNext

\* The client raised a non-retryable error on every attempt of the first
\* record; its fallback was appended and the second record is being tried.
C3_Witness ==
    /\ harness = "main" /\ pc = "classify" /\ idx = 2 /\ calls >= 1
    /\ CategoryOf(results[1]) = CatOther
    /\ DetailOf(results[1]) = ApiErrorDiag(entry, 400, <<>>)
    /\ last.kind = "api" /\ last.status = 400

\* min(2^(k-1), 16): the k-th delay of the backoff schedule 1, 2, 4, 8, 16, 16, ...
Schedule(k) == Min2(2 ^ (k - 1), 16)

\* C4: when the first k attempts of a call raised a retryable API status
\* error and attempt k+1 returned parseable output, the call made k+1
\* client calls, slept k times, for 1, 2, 4, ... capped at 16, in that
\* order, and returned what attempt k+1 parsed to; and an attempt that
\* raised 429, 500, 502, 503 or 504 before the last one slept.
C4_RetryThenSuccess ==
    /\ (pc = "returned" /\ last.kind = "ok" /\ all_transient) =>
            /\ calls = attempt + 1
            /\ calls <= max_retries
            /\ sleeps = [i \in 1..(calls - 1) |-> Schedule(i)]
            /\ \E p \in Parsed(entry, harness) :
                    p.path = "ok" /\ ret = [category |-> p.category, detail |-> p.detail]
    /\ (pc = "classify" /\ last.kind = "api"
            /\ last.status \in {429, 500, 502, 503, 504}) => last.slept

\* Six retryable errors, then a parseable reply: the cap is reached.
C4_Witness ==
    /\ pc = "returned" /\ last.kind = "ok" /\ all_transient
    /\ calls = 7
    /\ sleeps = <<1, 2, 4, 8, 16, 16>>
    /\ ret.category = CatNoUse

\* C5 (as claimed): whenever a further attempt follows a failed attempt of
\* the same call, a backoff sleep separated them, and the sleep before the
\* k-th retry lasted min(2^(k-1), 16).
C5_SleepBeforeEveryRetry ==
    [][(pc = "classify" /\ calls >= 1 /\ calls' = calls + 1) =>
            /\ last.slept
            /\ Len(sleeps) = calls
            /\ sleeps[calls] = Schedule(calls)]_vars

\* C6: a call makes at most max_retries client calls and at most
\* max_retries - 1 backoff sleeps (none of either when max_retries <= 0),
\* the attempt with index max_retries - 1 returns, and no call returns
\* right after a sleep.
C6_BoundedAttempts ==
    /\ max_retries >= 1 => (calls <= max_retries /\ Len(sleeps) <= max_retries - 1)
    /\ max_retries <= 0 => (calls = 0 /\ sleeps = <<>>)
    /\ pc = "classify" => calls = attempt
    /\ (pc = "classify" /\ max_retries >= 1) => calls < max_retries
    /\ pc = "returned" => ~last.slept

\* The default five attempts all failed with an unexpected error: four
\* sleeps, and the call returned.
C6_Witness ==
    /\ harness = "main" /\ pc = "returned"
    /\ max_retries = 5 /\ calls = 5
    /\ sleeps = <<1, 2, 4, 8>>
    /\ last.kind = "other"

\* C7 (as claimed): after an attempt failed with an API status error whose
\* status is not 429, 500, 502, 503 or 504, the call makes no further
\* client call.
C7_NoRetryAfterFatal ==
    [][(pc = "classify" /\ last.kind = "api"
            /\ last.status \notin {429, 500, 502, 503, 504}) => calls' = calls]_vars

\* C8 (as claimed): in a run whose output extension is invalid the input is
\* never loaded and no record is handed to classify_text.
C8_InvalidOutputAbortsFirst ==
    (harness = "main" /\ ~ValidOutExt(entry, out_ext)) =>
        (~loaded /\ classified = <<>>)

\* C9 (as claimed): load_records on a headed CSV whose header lacks the
\* selected column raises an error naming the column and the header,
\* whatever the number of data rows; on a JSON list of objects that lack
\* the key it raises too.
C9_MissingColumnRaises ==
    [][(/\ pc = "load" /\ entry = "root"
        /\ InputColumn \notin Range(file.header)
        /\ \/ file.ext = ".csv"
           \/ file.ext = ".json" /\ file.is_list /\ file.cells # <<>>) =>
            /\ pc' = "error"
            /\ error'.type = "ValueError"
            /\ error'.column = InputColumn
            /\ error'.headers = file.header]_vars

\* C10 (as claimed): no classify_text call is made for a text that is empty
\* after trimming, and a completed run has one output record for each
\* input row with non-empty text, in input order, with the text trimmed.
C10_EmptyRowsSkipped ==
    harness = "main" =>
        /\ \A i \in 1..Len(classified) : classified[i] # <<>>
        /\ pc = "done" =>
                [i \in 1..Len(results) |-> InputOf(results[i])] = AnswersOf(input_cells)

\* The sum of f over the set S of its arguments.
RECURSIVE SumOver(_, _)
SumOver(f, S) ==
    IF S = {} THEN 0
    ELSE LET x == CHOOSE y \in S : TRUE IN f[x] + SumOver(f, S \ {x})

Summarized == harness = "build_summary" /\ pc = "called"

\* C11: for every list of allowed labels, build_summary returns
\* total_inputs equal to the length of the list; category_counts and
\* category_percents whose key sets are exactly ALLOWED_CATEGORIES; counts
\* that are the numbers of occurrences and sum to the total; and, for a
\* non-empty list, percentages that are count * 100 / total rounded to two
\* decimals (here in hundredths of a percent: the nearest integer to
\* count * 10000 / total).  ["Other", "Other", "No Use"] gives 66.67 for
\* "Other", 33.33 for "No Use" and 0.0 for the rest.
C11_SummaryCounts ==
    Summarized =>
        LET total == Len(arg)
            labels == AllowedSet(entry)
        IN  /\ res.total_inputs = total
            /\ DOMAIN res.category_counts = labels
            /\ DOMAIN res.category_percents = labels
            /\ \A label \in labels :
                    res.category_counts[label] =
                        Cardinality({i \in DOMAIN arg : arg[i] = label})
            /\ SumOver(res.category_counts, labels) = total
            /\ total > 0 =>
                    \A label \in labels :
                        LET p == res.category_percents[label]
                            exact == res.category_counts[label] * 10000
                        IN  /\ 2 * (p * total - exact) <= total
                            /\ 2 * (exact - p * total) <= total
            /\ arg = <<CatOther, CatOther, CatNoUse>> =>
                    \A label \in labels :
                        res.category_percents[label] =
                            (IF label = CatOther THEN 6667
                             ELSE IF label = CatNoUse THEN 3333 ELSE 0)

\* build_summary has returned the summary of ["Other", "Other", "No Use"].
C11_Witness ==
    /\ Summarized
    /\ arg = <<CatOther, CatOther, CatNoUse>>
    /\ res.total_inputs = 3
    /\ res.category_counts[CatOther] = 2
    /\ res.category_percents[CatOther] = 6667

\* C12: for a non-empty list the percentages of all allowed labels sum to
\* 100.0 within 0.1 (here: to 10000 hundredths within 10); for the empty
\* list every percentage is 0.0, the quotient count * 100 / total being
\* guarded by total == 0 and never evaluated.
C12_PercentsSum ==
    Summarized =>
        LET sum == SumOver(res.category_percents, AllowedSet(entry))
        IN  /\ Len(arg) > 0 => (sum >= 10000 - 10 /\ sum <= 10000 + 10)
            /\ Len(arg) = 0 =>
                    \A label \in AllowedSet(entry) : res.category_percents[label] = 0

\* The summary of three different labels: three times 33.33, which sum to
\* 99.99 and not to 100.0.
C12_Witness ==
    /\ Summarized
    /\ Len(arg) = 3
    /\ Cardinality(Range(arg)) = 3
    /\ SumOver(res.category_percents, AllowedSet(entry)) = 9999

\* The rearrangements of the list seq.
Rearrangements(seq) ==
    LET n == Len(seq)
    IN  {[i \in 1..n |-> seq[f[i]]] :
            f \in {g \in [1..n -> 1..n] : \A i, j \in 1..n : g[i] = g[j] => i = j}}

\* C13: build_summary does not depend on the order of its input: every
\* rearrangement of the list gives the same total, counts and percentages.
C13_OrderIndependent ==
    Summarized =>
        \A other \in Rearrangements(arg) : build_summary(entry, other) = res

\* The summary of a list of three labels whose first and last differ, which
\* is also the summary of the list reversed.
C13_Witness ==
    /\ Summarized
    /\ Len(arg) = 3
    /\ arg[1] # arg[3]
    /\ <<arg[3], arg[2], arg[1]>> \in Rearrangements(arg)
    /\ res = build_summary(entry, <<arg[3], arg[2], arg[1]>>)

Normalized == harness = "normalize_category" /\ pc = "called"

\* C14: normalize_category returns a result for every input; for a string
\* it is the allowed label equal to the input after trimming and ignoring
\* case, and "Other" when no label is equal to it (a prefix, a substring
\* or a superstring of a label does not match); for a non-string it is
\* "Other"; and normalizing the result again gives the result.
\* normalize(" cheating concerns ") = "Cheating Concerns",
\* normalize("banana") = "Other", normalize(None) = "Other".
C14_NormalizeExact ==
    Normalized =>
        LET labels == AllowedSet(entry)
            matches == IF arg.t = "str"
                       THEN {label \in labels : LowerEquals(Strip(arg.s), label)}
                       ELSE {}
        IN  /\ res \in labels
            /\ matches # {} => res \in matches
            /\ matches = {} => res = CatOther
            /\ arg.t # "str" => res = CatOther
            /\ normalize_category(entry, JStr(res)) = res
            /\ arg = JStr(<<" ">> \o LowerLabel(CatCheating) \o <<" ">>) => res = CatCheating
            /\ arg = JStr(Banana) => res = CatOther
            /\ arg = JNull => res = CatOther
            /\ arg \in {JStr(SubSeq(CatNoUse, 1, Len(CatNoUse) - 1)),
                        JStr(Tail(CatNoUse)),
                        JStr(CatNoUse \o <<"!">>)} => res = CatOther

\* normalize_category(" cheating concerns ") has returned "Cheating Concerns".
C14_Witness ==
    /\ Normalized
    /\ arg = JStr(<<" ">> \o LowerLabel(CatCheating) \o <<" ">>)
    /\ res = CatCheating

ParseDone == harness = "parse" /\ pc = "called"

\* C15: when the reply contains a "{" and a "}" and the first "{" is before
\* the last "}", the text parsed is exactly the reply from its first "{"
\* through its last "}"; otherwise it is the entire reply (trimmed).  So the
\* text before the first "{" and after the last "}" does not change the
\* outcome: the reply and its bare region give the same category and the
\* same reason.  "x{...}x" around an object with category "No Use" and
\* reason " r" gives "No Use" and "r".
C15_ParsedRegion ==
    ParseDone =>
        LET raw == arg
            opens == {i \in DOMAIN raw : raw[i] = "{"}
            closes == {i \in DOMAIN raw : raw[i] = "}"}
            selected == opens # {} /\ closes # {} /\ SetMin(opens) < SetMax(closes)
            core == SubSeq(raw, SetMin(opens), SetMax(closes))
            bare == ParseResponse(entry, core, RecursionRoom(harness))
        IN  /\ selected => res.region = core
            /\ ~selected => res.region = Strip(raw)
            /\ selected =>
                    /\ bare.path = res.parsed.path
                    /\ bare.category = res.parsed.category
                    /\ entry = "root" => bare.detail = res.parsed.detail
            /\ raw = <<"x">> \o ObjectNoUse \o <<"x">> =>
                    /\ res.parsed.path = "ok"
                    /\ res.parsed.category = CatNoUse
                    /\ entry = "root" => res.parsed.detail = <<"r">>

\* A JSON object with text on both sides was parsed to its category and
\* reason.
C15_Witness ==
    /\ ParseDone /\ entry = "root"
    /\ arg = <<"x">> \o ObjectNoUse \o <<"x">>
    /\ res.region = ObjectNoUse
    /\ res.parsed.category = CatNoUse
    /\ res.parsed.detail = <<"r">>

\* C17: main() processes one record at a time.  At most one classify_text
\* call has no result appended yet; while record i+1 is handed to
\* classify_text, and so whenever a client call for it has been made, the
\* results of records 1..i have all been appended and each was followed by
\* the courtesy pause; between two records the pauses, the results and the
\* records taken are equally many; and every pause has the same fixed
\* length, 0.1 s in the per-record mode and 0.05 s in the summary mode.
C17_StrictlySequential ==
    harness = "main" =>
        /\ Len(classified) - Len(results) \in {0, 1}
        /\ pc \in {"enter", "classify", "returned"} =>
                (Len(results) = idx - 1 /\ Len(pauses) = idx - 1)
        /\ calls >= 1 =>
                (pc \in {"classify", "returned"} /\ Len(results) = idx - 1)
        /\ pc \in {"loop", "done"} => (Len(results) = idx /\ Len(pauses) = idx)
        /\ \A i \in 1..Len(pauses) :
                pauses[i] = (IF entry = "root" THEN 100 ELSE 50)

\* The client has been called for the second record: the first record's
\* result was appended and the pause made, after a retry sequence of more
\* than one attempt.
C17_Witness ==
    /\ harness = "main" /\ pc = "classify" /\ idx = 2
    /\ calls >= 2
    /\ Len(results) = 1
    /\ Len(pauses) = 1
    /\ Len(classified) = 2

\* C18 (as claimed): in the per-record mode the loop body leaves the loaded
\* rows as they are and appends one record that holds every field of its
\* input row with the input row's value, and the fields category and
\* reason with what classify_text returned, whatever the input's field
\* names are.
C18_InputFieldsPreserved ==
    [][(harness = "main" /\ entry = "root" /\ pc = "returned") =>
            /\ rows' = rows
            /\ Len(results') = Len(results) + 1
            /\ LET out == results'[Len(results')]
               IN  /\ \A k \in DOMAIN rows[idx] : out[k] = rows[idx][k]
                   /\ {"category", "reason"} \subseteq DOMAIN out
                   /\ out["category"] = JStr(ret.category)
                   /\ out["reason"] = JStr(ret.detail)]_vars

\* s starts with p.
HasPrefix(s, p) == Len(p) <= Len(s) /\ SubSeq(s, 1, Len(p)) = p

\* How the diagnostic of each failure class starts in each entry point.
ClassPrefix(e, kind) ==
    IF kind = "parse"
    THEN (IF e = "root"
          THEN <<"C","o","u","l","d"," ","n","o","t"," ","p","a","r","s","e">>
          ELSE <<"P","a","r","s","e"," ","e","r","r","o","r",":">>)
    ELSE IF kind = "api"
    THEN <<"A","P","I"," ","e","r","r","o","r">>
    ELSE <<"U","n","e","x","p","e","c","t","e","d"," ","e","r","r","o","r",":">>

\* C19: with max_retries >= 1 the return after the retry loop is never
\* reached, because the except block of the attempt with index
\* max_retries - 1 returns; and a fallback returned after a failed attempt
\* was returned by that last attempt, with the diagnostic of its failure
\* class (and, for an API error of the summary mode, its status code).
\* The return after the loop is taken only with max_retries <= 0.
C19_FinalAttemptReturns ==
    /\ max_retries >= 1 => ~ENABLED TrailingReturn
    /\ (pc = "classify" /\ max_retries >= 1) => attempt <= max_retries - 1
    /\ (pc = "returned" /\ calls = 0) => max_retries <= 0
    /\ (pc = "returned" /\ last.kind \in Failed) =>
            /\ max_retries >= 1
            /\ attempt = max_retries - 1
            /\ ret.category = CatOther
            /\ HasPrefix(ret.detail, ClassPrefix(entry, last.kind))
            /\ \A kind \in Failed \ {last.kind} :
                    ~HasPrefix(ret.detail, ClassPrefix(entry, kind))
            /\ ret.detail # TrailingDiag(entry)
            /\ last.kind = "api" =>
                    \E msg \in Messages(harness) :
                        ret.detail = ApiErrorDiag(entry, last.status, msg)

\* A call whose earlier attempts failed in another way and slept, and whose
\* last attempt could not be parsed: the fallback names the parse failure.
C19_Witness ==
    /\ pc = "returned" /\ last.kind = "parse"
    /\ max_retries >= 3 /\ calls = max_retries
    /\ Len(sleeps) >= 2
    /\ HasPrefix(ret.detail, ClassPrefix(entry, "parse"))

====
